---- MODULE Spec2Model ----
(***************************************************************************)
(* A model of the mdlog extraction engine (src/src/parser.rs): the Parser   *)
(* built by from_line_end, and its two entry points parse_tasks and         *)
(* parse_events, run over log texts assembled line by line.                 *)
(*                                                                          *)
(* A text (Rust &str) is a sequence of one-character strings.  Offsets are  *)
(* the 0-based byte offsets of the source (the texts are ASCII), so         *)
(* s[a..b] of the source is str_range(s, a, b) here.  An Option<T> is a set *)
(* with at most one element: None is {} and Some(x) is {x}.                 *)
(***************************************************************************)
EXTENDS Integers, Sequences, FiniteSets, TLC

(***************************************************************************)
(* Bounds of the model.                                                     *)
(***************************************************************************)
\* the largest number of lines a log text is assembled from
MaxLines == 4

\* the largest length of a log text, in characters
MaxLen == 48

(***************************************************************************)
(* Rust's str and Option operations, as the standard library computes them. *)
(***************************************************************************)
None == {}

Some(x) == {x}

unwrap(o) == CHOOSE x \in o : TRUE

SetMin(S) == CHOOSE x \in S : \A y \in S : x <= y

SetMax(S) == CHOOSE x \in S : \A y \in S : x >= y

\* s[a..b]
str_range(s, a, b) == SubSeq(s, a + 1, b)

\* s[a..]
str_from(s, a) == SubSeq(s, a + 1, Len(s))

\* s[..b]
str_to(s, b) == SubSeq(s, 1, b)

\* pat occurs in s at offset i
matches_at(s, pat, i) ==
    /\ i >= 0
    /\ i + Len(pat) <= Len(s)
    /\ \A k \in 1..Len(pat) : s[i + k] = pat[k]

\* every offset at which pat occurs in s
occurrences(s, pat) == {i \in 0..(Len(s) - Len(pat)) : matches_at(s, pat, i)}

\* str::find: the offset of the first occurrence
find(s, pat) ==
    LET M == occurrences(s, pat)
    IN  IF M = {} THEN None ELSE Some(SetMin(M))

\* str::rfind: the offset of the last occurrence
rfind(s, pat) ==
    LET M == occurrences(s, pat)
    IN  IF M = {} THEN None ELSE Some(SetMax(M))

\* str::match_indices: the offsets of the non-overlapping occurrences, left to right
RECURSIVE match_indices_from(_, _, _)
match_indices_from(s, pat, from) ==
    LET M == {i \in occurrences(s, pat) : i >= from}
    IN  IF M = {} THEN <<>>
        ELSE <<SetMin(M)>> \o match_indices_from(s, pat, SetMin(M) + Len(pat))

match_indices(s, pat) == match_indices_from(s, pat, 0)

\* char::is_whitespace on the characters the texts use
is_whitespace(c) == c \in {" ", "\t", "\n", "\r"}

\* char::is_numeric on the characters the texts use
is_numeric(c) == c \in {"0", "1", "2", "3", "4", "5", "6", "7", "8", "9"}

\* str::trim_start
RECURSIVE trim_start(_)
trim_start(s) ==
    IF s # <<>> /\ is_whitespace(Head(s)) THEN trim_start(Tail(s)) ELSE s

\* str::split on one character: the fields between its occurrences
RECURSIVE split(_, _)
split(s, c) ==
    LET p == find(s, <<c>>)
    IN  IF p = None THEN <<s>>
        ELSE <<str_to(s, unwrap(p))>> \o split(str_from(s, unwrap(p) + 1), c)

\* str::lines: the text cut at every "\n", a "\r" before it dropped with it;
\* no line is produced for the empty rest after a final "\n"
RECURSIVE lines(_)
lines(s) ==
    IF s = <<>> THEN <<>>
    ELSE LET p == find(s, <<"\n">>)
         IN  IF p = None THEN <<s>>
             ELSE LET n == unwrap(p)
                      l == IF n > 0 /\ s[n] = "\r" THEN str_to(s, n - 1) ELSE str_to(s, n)
                  IN  <<l>> \o lines(str_from(s, n + 1))

\* the value of a run of decimal digits
DigitChars == <<"0", "1", "2", "3", "4", "5", "6", "7", "8", "9">>

digit_value(c) == (CHOOSE i \in 1..10 : DigitChars[i] = c) - 1

RECURSIVE digits_value(_)
digits_value(s) ==
    IF s = <<>> THEN 0
    ELSE 10 * digits_value(str_to(s, Len(s) - 1)) + digit_value(s[Len(s)])

\* a run of digits without its leading zeros
RECURSIVE strip_zeros(_)
strip_zeros(s) == IF s # <<>> /\ Head(s) = "0" THEN strip_zeros(Tail(s)) ELSE s

\* u32::from_str: an optional "+", then one or more digits, the value at most
\* 4294967295.  The value is held as its 32 bits, read by the model's signed
\* 32-bit integers: a value v of 2147483648 or more appears as v - 4294967296
\* (4294967295 as -1), every smaller value as itself.
u32_from_str(s) ==
    LET d == IF s # <<>> /\ Head(s) = "+" THEN Tail(s) ELSE s
        sig == strip_zeros(d)
    IN  IF d = <<>> \/ (\E i \in 1..Len(d) : ~is_numeric(d[i])) THEN None
        ELSE IF Len(sig) > 10 THEN None
        ELSE IF Len(sig) = 10
             THEN LET hi == digits_value(str_to(sig, 9))
                      lo == digit_value(sig[10])
                      a == hi - 429496729
                  IN  IF hi > 429496729 \/ (hi = 429496729 /\ lo > 5) THEN None
                      ELSE IF hi < 214748364 \/ (hi = 214748364 /\ lo <= 7)
                           THEN Some(10 * hi + lo)
                      ELSE Some(9 * a + (a + lo - 6))
        ELSE Some(digits_value(sig))

(***************************************************************************)
(* chrono: NaiveDate and NaiveTime.                                         *)
(***************************************************************************)
is_leap_year(y) == (y % 4 = 0 /\ y % 100 # 0) \/ y % 400 = 0

days_in_month(y, m) ==
    IF m = 2 THEN (IF is_leap_year(y) THEN 29 ELSE 28)
    ELSE IF m \in {4, 6, 9, 11} THEN 30 ELSE 31

\* NaiveDate::from_ymd_opt
from_ymd_opt(y, m, d) ==
    IF m >= 1 /\ m <= 12 /\ d >= 1 /\ d <= days_in_month(y, m)
    THEN Some([year |-> y, month |-> m, day |-> d])
    ELSE None

\* NaiveTime::from_hms_opt; the arguments are u32, so one that appears
\* negative is a value of 2147483648 or more
from_hms_opt(h, m, s) ==
    IF 0 <= h /\ h < 24 /\ 0 <= m /\ m < 60 /\ 0 <= s /\ s < 60
    THEN Some([hour |-> h, minute |-> m, second |-> s])
    ELSE None

\* NaiveDate::parse_from_str(dmy, "%d%m%Y") on a run of digits: each field
\* takes as many digits as it can, at most 2 for the day, 2 for the month and
\* 4 for the (unsigned) year, and at least 1; digits left over are an error
parse_from_str(dmy) ==
    LET nd == IF Len(dmy) < 2 THEN Len(dmy) ELSE 2
        r1 == str_from(dmy, nd)
        nm == IF Len(r1) < 2 THEN Len(r1) ELSE 2
        r2 == str_from(r1, nm)
        ny == IF Len(r2) < 4 THEN Len(r2) ELSE 4
        r3 == str_from(r2, ny)
    IN  IF nd < 1 \/ nm < 1 \/ ny < 1 \/ r3 # <<>> THEN None
        ELSE from_ymd_opt(digits_value(str_to(r2, ny)),
                          digits_value(str_to(r1, nm)),
                          digits_value(str_to(dmy, nd)))

(***************************************************************************)
(* The outcome of a fallible step: a value, a returned io::Error, or a      *)
(* panic that unwinds out of the entry point (line: where it is raised).    *)
(***************************************************************************)
Ok(v) == [kind |-> "Ok", value |-> v]

Err(e) == [kind |-> "Err", error |-> e]

Panic(line) == [kind |-> "panic", line |-> line]

(***************************************************************************)
(* mod tag: the fixed marker vocabulary.                                    *)
(***************************************************************************)
ITEM == <<"-", " ">>

DAY == <<"#", "#", " ">>

WEEK == <<"#", " ", "W", "e", "e", "k", " ">>

TOPLEVEL == <<>>

TODO == <<"T", "O", "D", "O">>

DONE == <<"D", "O", "N", "E">>

EVT == <<"E", "V", "T">>

LINE_END_LINUX == <<"\n">>

LINE_END_WINDOWS == <<"\r", "\n">>

\* the literal ": " of slice_from's callers
COLON_SPACE == <<":", " ">>

\* the literal "EVT:" parse_events looks for
EVT_COLON == <<"E", "V", "T", ":">>

\* "- EVT:".len() and "- EVT ".len()
EVT_PLAIN_SKIP == Len(<<"-", " ", "E", "V", "T", ":">>)

EVT_TIME_SKIP == Len(<<"-", " ", "E", "V", "T", " ">>)

(***************************************************************************)
(* Parser::from_line_end                                                    *)
(***************************************************************************)
\* a parser whose unit terminators are built with the line feed alone,
\* whatever line ending it is given
from_line_end_lf_unit_ends(line_end) ==
    LET le == line_end
        day_tag == le \o DAY
    IN  [line_end      |-> le,
         unit_ends     |-> <<LINE_END_LINUX \o TOPLEVEL \o ITEM,
                             LINE_END_LINUX \o LINE_END_LINUX,
                             LINE_END_LINUX \o DAY,
                             LINE_END_LINUX \o WEEK>>,
         task_tag_todo |-> le \o ITEM \o TODO,
         task_tag_done |-> le \o ITEM \o DONE,
         event_tag     |-> le \o ITEM \o EVT,
         day_tag       |-> day_tag]

\* lines 38-66
from_line_end(line_end) ==
    LET le == line_end
        day_tag == le \o DAY
    IN  [line_end      |-> le,
         unit_ends     |-> <<le \o TOPLEVEL \o ITEM,
                             le \o line_end,
                             day_tag,
                             le \o WEEK>>,
         task_tag_todo |-> le \o ITEM \o TODO,
         task_tag_done |-> le \o ITEM \o DONE,
         event_tag     |-> le \o ITEM \o EVT,
         day_tag       |-> day_tag]

(***************************************************************************)
(* Parser helpers.                                                          *)
(***************************************************************************)
\* a lookup that takes the first day heading of the text instead of the last
\* one before lookup_from
day_heading_offset_first(p, s, lookup_from) == find(str_to(s, lookup_from), p.day_tag)

\* lookup_date, line 222: the offset of the day heading searched backwards
\* from lookup_from
day_heading_offset(p, s, lookup_from) == rfind(str_to(s, lookup_from), p.day_tag)

\* Parser::lookup_date
lookup_date(p, s, lookup_from) ==
    LET r == day_heading_offset(p, s, lookup_from)
    IN  IF r = None THEN Panic(222)
        ELSE LET day == unwrap(r) + 1
                 e == find(str_from(s, day), p.line_end)
             IN  IF e = None THEN Panic(223)
                 ELSE LET day_line == str_range(s, day, day + unwrap(e))
                          dmy == SelectSeq(day_line, is_numeric)
                          d == parse_from_str(dmy)
                      IN  IF d = None THEN Err("InvalidInput") ELSE Ok(unwrap(d))

\* a lookup that takes the first unit end of the list that occurs at all
\* instead of the one that occurs first in the text
lookup_end_of_unit_first_listed(p, s) ==
    LET hit == {i \in 1..Len(p.unit_ends) : find(s, p.unit_ends[i]) # None}
    IN  IF hit = {} THEN None ELSE find(s, p.unit_ends[SetMin(hit)])

\* Parser::lookup_end_of_unit: the least offset at which a unit end occurs;
\* None is the case in which the source panics (line 245)
lookup_end_of_unit(p, s) ==
    LET found == UNION {find(s, p.unit_ends[i]) : i \in 1..Len(p.unit_ends)}
    IN  IF found = {} THEN None ELSE Some(SetMin(found))

\* slice_from: the text after the first occurrence of delim; the caller has
\* checked that delim occurs (the source panics at line 379 when it does not)
slice_from(s, delim) == str_from(s, unwrap(find(s, delim)) + Len(delim))

(***************************************************************************)
(* parse_tasks: the body of the loop, for the marker found at idx.          *)
(***************************************************************************)
\* lines 161-167: a child line after its indentation and item prefix
strip_item(l) ==
    LET pos == find(l, ITEM)
    IN  str_from(l, IF pos = None THEN 0 ELSE unwrap(pos) + Len(ITEM))

\* an iteration of parse_tasks that does not end well: the error returned or
\* the panic, and the lines it had reported on stderr by then
Failure(outcome, warned) == [kind |-> "failed", outcome |-> outcome, warned |-> warned]

\* lines 157-196: the fold of the unit's lines into (subtasks, notes); warned
\* are the lines reported on stderr
RECURSIVE fold_lines(_, _)
fold_lines(ls, acc) ==
    IF ls = <<>> THEN Ok(acc)
    ELSE LET l == strip_item(Head(ls))
             has_todo == find(l, TODO) # None
             has_done == find(l, DONE) # None
         IN  IF l = <<>> THEN fold_lines(Tail(ls), acc)
             ELSE IF has_todo /\ has_done
                  THEN fold_lines(Tail(ls), [acc EXCEPT !.warned = Append(@, l)])
             ELSE IF has_todo
                  THEN IF find(l, COLON_SPACE) = None THEN Failure(Panic(180), acc.warned)
                       ELSE fold_lines(Tail(ls),
                              [acc EXCEPT !.st = Append(@, [msg |-> slice_from(l, COLON_SPACE),
                                                            is_done |-> FALSE])])
             ELSE IF has_done
                  THEN IF find(l, COLON_SPACE) = None THEN Failure(Panic(187), acc.warned)
                       ELSE fold_lines(Tail(ls),
                              [acc EXCEPT !.st = Append(@, [msg |-> slice_from(l, COLON_SPACE),
                                                            is_done |-> TRUE])])
             ELSE fold_lines(Tail(ls), [acc EXCEPT !.n = Append(@, l)])

\* an is_done that follows the task's own marker and ignores its subtasks
task_is_done_marker_only(is_done, subtasks) == is_done

\* lines 201-203: the task's is_done from its marker and its subtasks
task_is_done(is_done, subtasks) ==
    LET all_subtasks_done == ~(\E i \in 1..Len(subtasks) : ~subtasks[i].is_done)
    IN  is_done /\ all_subtasks_done

\* lines 142-213: one iteration; on success the Task, the text range of the
\* unit body that was scanned for child lines, and the warnings printed; else
\* the failure and the warnings printed before it
parse_task_unit(p, log_data, idx, is_done) ==
    LET ip == idx + Len(p.line_end)
        e == find(str_from(log_data, ip), p.line_end)
    IN  IF e = None THEN Failure(Panic(144), <<>>)
        ELSE LET eol == unwrap(e)
                 todo_start == ip
                 todo_line == str_range(log_data, ip, ip + eol)
                 date == lookup_date(p, log_data, todo_start)
             IN  IF date.kind # "Ok" THEN Failure(date, <<>>)
                 ELSE LET u == lookup_end_of_unit(p, str_from(log_data, todo_start))
                      IN  IF u = None THEN Failure(Panic(245), <<>>)
                          ELSE LET end_of_todo == unwrap(u)
                                   todo_body == str_range(log_data, todo_start + eol,
                                                          todo_start + end_of_todo)
                                   f == fold_lines(lines(todo_body),
                                                   [st |-> <<>>, n |-> <<>>, warned |-> <<>>])
                               IN  IF f.kind # "Ok" THEN f
                                   ELSE IF find(todo_line, COLON_SPACE) = None
                                        THEN Failure(Panic(199), f.value.warned)
                                   ELSE Ok([task |-> [msg |-> slice_from(todo_line, COLON_SPACE),
                                                      subtasks |-> f.value.st,
                                                      notes |-> f.value.n,
                                                      date |-> date.value,
                                                      is_done |-> task_is_done(is_done, f.value.st)],
                                            start |-> todo_start,
                                            from |-> todo_start + eol,
                                            to |-> todo_start + end_of_todo,
                                            warned |-> f.value.warned])

\* the markers of the TODO tasks alone
task_markers_todos_only(p, log_data) ==
    LET todos == match_indices(log_data, p.task_tag_todo)
    IN  [i \in 1..Len(todos) |-> [idx |-> todos[i], is_done |-> FALSE]]

\* lines 134-141: todos.chain(dones), the markers in the order the loop takes them
task_markers(p, log_data) ==
    LET todos == match_indices(log_data, p.task_tag_todo)
        dones == match_indices(log_data, p.task_tag_done)
    IN  [i \in 1..Len(todos) |-> [idx |-> todos[i], is_done |-> FALSE]]
        \o [i \in 1..Len(dones) |-> [idx |-> dones[i], is_done |-> TRUE]]

(***************************************************************************)
(* parse_events: the body of the loop, for the marker found at idx.         *)
(***************************************************************************)
\* lines 83-101: the message and time of an event line with a clock value
timed_event(line) ==
    IF Len(line) < EVT_TIME_SKIP THEN Panic(84)
    ELSE LET hm == split(str_from(line, EVT_TIME_SKIP), ":")
             h == u32_from_str(hm[1])
         IN  IF h = None THEN Panic(86)
             ELSE IF Len(hm) < 2 THEN Panic(88)
             ELSE LET m == u32_from_str(hm[2])
                  IN  IF m = None THEN Panic(86)
                      ELSE LET time == from_hms_opt(unwrap(h), unwrap(m), 0)
                               colons == match_indices(line, <<":">>)
                           IN  IF time = None THEN Panic(90)
                               ELSE IF Len(colons) < 2 THEN Panic(98)
                               ELSE Ok([msg |-> trim_start(str_from(line, colons[2] + 1)),
                                        time |-> time])

\* lines 78-102: (msg, time) of an event line
event_msg_time(line) ==
    IF find(line, EVT_COLON) # None
    THEN Ok([msg |-> trim_start(str_from(line, EVT_PLAIN_SKIP)), time |-> None])
    ELSE timed_event(line)

\* lines 108-115: the notes of the unit text
event_notes(unit) ==
    LET ls == lines(unit)
        children == IF ls = <<>> THEN <<>> ELSE Tail(ls)
        nonempty == SelectSeq(children, LAMBDA l : l # <<>>)
        trimmed == [i \in 1..Len(nonempty) |-> trim_start(nonempty[i])]
    IN  IF \E i \in 1..Len(trimmed) : Len(trimmed[i]) < 2 THEN Panic(113)
        ELSE Ok([i \in 1..Len(trimmed) |-> str_from(trimmed[i], 2)])

\* lines 70-124: one iteration; on success the Event and the text range of the
\* unit that was scanned for child lines
parse_event_unit(p, log_data, idx) ==
    LET start == idx + Len(p.line_end)
        e == find(str_from(log_data, start), p.line_end)
    IN  IF e = None THEN Panic(371)
        ELSE LET line == str_range(log_data, start, start + unwrap(e))
                 date == lookup_date(p, log_data, start)
             IN  IF date.kind # "Ok" THEN date
                 ELSE LET mt == event_msg_time(line)
                      IN  IF mt.kind # "Ok" THEN mt
                          ELSE LET start_of_unit == start + Len(p.line_end)
                                   u == lookup_end_of_unit(p, str_from(log_data, start_of_unit))
                               IN  IF u = None THEN Panic(245)
                                   ELSE LET end_of_unit == start_of_unit + unwrap(u)
                                            notes == event_notes(str_range(log_data, start_of_unit,
                                                                           end_of_unit))
                                        IN  IF notes.kind # "Ok" THEN notes
                                            ELSE Ok([event |-> [msg |-> mt.value.msg,
                                                                notes |-> notes.value,
                                                                date |-> date.value,
                                                                time |-> mt.value.time],
                                                     start |-> start,
                                                     from |-> start_of_unit,
                                                     to |-> end_of_unit])

(***************************************************************************)
(* The two entry points as whole calls: the loop over the markers, ended by *)
(* the first iteration that fails.                                          *)
(***************************************************************************)
\* lines 141-214: the loop of parse_tasks over the markers that remain
RECURSIVE parse_tasks_loop(_, _, _, _)
parse_tasks_loop(p, log_data, markers, tasks) ==
    IF markers = <<>> THEN Ok(tasks)
    ELSE LET m == Head(markers)
             r == parse_task_unit(p, log_data, m.idx, m.is_done)
         IN  IF r.kind # "Ok" THEN r.outcome
             ELSE parse_tasks_loop(p, log_data, Tail(markers), Append(tasks, r.value.task))

\* lines 130-217
parse_tasks(p, log_data) ==
    parse_tasks_loop(p, log_data, task_markers(p, log_data), <<>>)

\* lines 70-125: the loop of parse_events over the markers that remain
RECURSIVE parse_events_loop(_, _, _, _)
parse_events_loop(p, log_data, markers, events) ==
    IF markers = <<>> THEN Ok(events)
    ELSE LET r == parse_event_unit(p, log_data, Head(markers))
         IN  IF r.kind # "Ok" THEN r
             ELSE parse_events_loop(p, log_data, Tail(markers), Append(events, r.value.event))

\* lines 68-128
parse_events(p, log_data) ==
    parse_events_loop(p, log_data, match_indices(log_data, p.event_tag), <<>>)

(***************************************************************************)
(* The log lines the texts are assembled from.                              *)
(***************************************************************************)
\* ""
L_EMPTY == <<>>

\* "## Mon, 14.10.2019"
L_DAY_A == <<"#", "#", " ", "M", "o", "n", ",", " ", "1", "4", ".", "1", "0", ".", "2", "0", "1", "9">>

\* "## 15.10.2019"
L_DAY_B == <<"#", "#", " ", "1", "5", ".", "1", "0", ".", "2", "0", "1", "9">>

\* "## 31.04.2019": April has 30 days
L_DAY_BAD == <<"#", "#", " ", "3", "1", ".", "0", "4", ".", "2", "0", "1", "9">>

\* "# Week 42"
L_WEEK == <<"#", " ", "W", "e", "e", "k", " ", "4", "2">>

\* "- a"
L_ITEM == <<"-", " ", "a">>

\* "- TODO A1:  f ": a tag, two spaces after the colon, a trailing space
L_TODO == <<"-", " ", "T", "O", "D", "O", " ", "A", "1", ":", " ", " ", "f", " ">>

\* "- DONE: g"
L_DONE == <<"-", " ", "D", "O", "N", "E", ":", " ", "g">>

\* "    - DONE: d1"
L_SUB_DONE == <<" ", " ", " ", " ", "-", " ", "D", "O", "N", "E", ":", " ", "d", "1">>

\* "    - TODO: f1"
L_SUB_TODO == <<" ", " ", " ", " ", "-", " ", "T", "O", "D", "O", ":", " ", "f", "1">>

\* "  - TODO f2": a subtask line with no colon
L_SUB_NOCOLON == <<" ", " ", "-", " ", "T", "O", "D", "O", " ", "f", "2">>

\* "  - TODO DONE: x": both sub-markers
L_SUB_BOTH == <<" ", " ", "-", " ", "T", "O", "D", "O", " ", "D", "O", "N", "E", ":", " ", "x">>

\* "  - b1"
L_NOTE == <<" ", " ", "-", " ", "b", "1">>

\* "  -": one character after the indentation
L_SHORT == <<" ", " ", "-">>

\* "- EVT: e"
L_EVT == <<"-", " ", "E", "V", "T", ":", " ", "e">>

\* "- EVT 16:25: b"
L_EVT_TIME == <<"-", " ", "E", "V", "T", " ", "1", "6", ":", "2", "5", ":", " ", "b">>

\* "- EVT 06:01: EVT: h": a timed event whose message holds "EVT:"
L_EVT_TIME_EVT == <<"-", " ", "E", "V", "T", " ", "0", "6", ":", "0", "1", ":", " ",
                    "E", "V", "T", ":", " ", "h">>

Vocabulary ==
    {L_EMPTY, L_DAY_A, L_DAY_B, L_DAY_BAD, L_WEEK, L_ITEM, L_TODO, L_DONE,
     L_SUB_DONE, L_SUB_TODO, L_SUB_NOCOLON, L_SUB_BOTH, L_NOTE, L_SHORT,
     L_EVT, L_EVT_TIME, L_EVT_TIME_EVT}

LineEnds == {LINE_END_LINUX, LINE_END_WINDOWS}

(***************************************************************************)
(* State.                                                                   *)
(*   parser    the Parser struct                                            *)
(*   log_data  the text handed to the entry points                          *)
(*   n_lines   the number of lines log_data was assembled from              *)
(*   pc        "edit", then the entry point called: "parse_tasks" or        *)
(*             "parse_events"                                               *)
(*   pending   the markers the running loop has still to take               *)
(*   tasks, events   the vectors the running loop pushes to                 *)
(*   units     for each record pushed: its marker and the text range that   *)
(*             was scanned for its child lines                              *)
(*   stderr    the lines reported by eprintln!                              *)
(*   result    the outcome of the call, once it has ended (kind "none"      *)
(*             until then)                                                  *)
(***************************************************************************)
VARIABLES parser, log_data, n_lines, pc, pending, tasks, events, units, stderr, result

(***************************************************************************)
(* State of the template generator (bin/mdlog-generate.rs, main).           *)
(*   gen_pc    "args" before the arguments are read, "loop" while the days  *)
(*             are printed, "done" after the loop, "panic" after a failed   *)
(*             assertion                                                    *)
(*   input     the Input struct, year resolved                              *)
(*   day, last_day   the loop variable and the bound of the loop, as day    *)
(*             numbers                                                      *)
(*   stdout    the lines printed, each as the heading tag it starts with    *)
(*             and the day it was printed for                               *)
(***************************************************************************)
VARIABLES gen_pc, input, day, last_day, stdout

gen_vars == <<gen_pc, input, day, last_day, stdout>>

vars == <<parser, log_data, n_lines, pc, pending, tasks, events, units, stderr, result,
          gen_pc, input, day, last_day, stdout>>

Init ==
    /\ parser \in {from_line_end(le) : le \in LineEnds}
    /\ log_data = <<>>
    /\ n_lines = 0
    /\ pc = "edit"
    /\ pending = <<>>
    /\ tasks = <<>>
    /\ events = <<>>
    /\ units = <<>>
    /\ stderr = <<>>
    /\ result = [kind |-> "none"]
    /\ gen_pc = "args"
    /\ input = [year |-> 0, week |-> 0, n_weeks |-> 0]
    /\ day = 0
    /\ last_day = 0
    /\ stdout = <<>>

\* the text begins with a line that has no line ending in front of it
AddFirstLine(l) ==
    /\ pc = "edit"
    /\ n_lines = 0
    /\ l # <<>>
    /\ Len(l) <= MaxLen
    /\ log_data' = l
    /\ n_lines' = 1
    /\ UNCHANGED <<parser, pc, pending, tasks, events, units, stderr, result>>
    /\ UNCHANGED gen_vars

\* one more line, after a line ending
AddLine(l) ==
    /\ pc = "edit"
    /\ n_lines < MaxLines
    /\ Len(log_data) + Len(parser.line_end) + Len(l) <= MaxLen
    /\ log_data' = log_data \o parser.line_end \o l
    /\ n_lines' = n_lines + 1
    /\ UNCHANGED <<parser, pc, pending, tasks, events, units, stderr, result>>
    /\ UNCHANGED gen_vars

\* parse_tasks, lines 130-141
ParseTasksBegin ==
    /\ pc = "edit"
    /\ pc' = "parse_tasks"
    /\ pending' = task_markers(parser, log_data)
    /\ UNCHANGED <<parser, log_data, n_lines, tasks, events, units, stderr, result>>
    /\ UNCHANGED gen_vars

\* parse_tasks, lines 141-214: one iteration of the loop
ParseTasksNext ==
    /\ pc = "parse_tasks"
    /\ result.kind = "none"
    /\ pending # <<>>
    /\ LET m == Head(pending)
           r == parse_task_unit(parser, log_data, m.idx, m.is_done)
       IN  IF r.kind = "Ok"
           THEN /\ tasks' = Append(tasks, r.value.task)
                /\ units' = Append(units, [idx |-> m.idx, is_done |-> m.is_done,
                                           start |-> r.value.start,
                                           from |-> r.value.from, to |-> r.value.to])
                /\ stderr' = stderr \o r.value.warned
                /\ pending' = Tail(pending)
                /\ UNCHANGED result
           ELSE /\ result' = r.outcome
                /\ stderr' = stderr \o r.warned
                /\ pending' = <<>>
                /\ UNCHANGED <<tasks, units>>
    /\ UNCHANGED <<parser, log_data, n_lines, pc, events>>
    /\ UNCHANGED gen_vars

\* parse_tasks, line 216
ParseTasksReturn ==
    /\ pc = "parse_tasks"
    /\ result.kind = "none"
    /\ pending = <<>>
    /\ result' = Ok(tasks)
    /\ UNCHANGED <<parser, log_data, n_lines, pc, pending, tasks, events, units, stderr>>
    /\ UNCHANGED gen_vars

\* parse_events, lines 68-70
ParseEventsBegin ==
    /\ pc = "edit"
    /\ pc' = "parse_events"
    /\ pending' = match_indices(log_data, parser.event_tag)
    /\ UNCHANGED <<parser, log_data, n_lines, tasks, events, units, stderr, result>>
    /\ UNCHANGED gen_vars

\* parse_events, lines 70-125: one iteration of the loop
ParseEventsNext ==
    /\ pc = "parse_events"
    /\ result.kind = "none"
    /\ pending # <<>>
    /\ LET idx == Head(pending)
           r == parse_event_unit(parser, log_data, idx)
       IN  IF r.kind = "Ok"
           THEN /\ events' = Append(events, r.value.event)
                /\ units' = Append(units, [idx |-> idx,
                                           start |-> r.value.start,
                                           from |-> r.value.from, to |-> r.value.to])
                /\ pending' = Tail(pending)
                /\ UNCHANGED result
           ELSE /\ result' = r
                /\ pending' = <<>>
                /\ UNCHANGED <<events, units>>
    /\ UNCHANGED <<parser, log_data, n_lines, pc, tasks, stderr>>
    /\ UNCHANGED gen_vars

\* parse_events, line 127
ParseEventsReturn ==
    /\ pc = "parse_events"
    /\ result.kind = "none"
    /\ pending = <<>>
    /\ result' = Ok(events)
    /\ UNCHANGED <<parser, log_data, n_lines, pc, pending, tasks, events, units, stderr>>
    /\ UNCHANGED gen_vars

Next ==
    \/ \E l \in Vocabulary : AddFirstLine(l)
    \/ \E l \in Vocabulary : AddLine(l)
    \/ ParseTasksBegin
    \/ ParseTasksNext
    \/ ParseTasksReturn
    \/ ParseEventsBegin
    \/ ParseEventsNext
    \/ ParseEventsReturn

Spec == Init /\ [][Next]_vars

\* the runs of a parser built with the LF line ending, whose texts have single
\* line-feed endings
InitLF == Init /\ parser = from_line_end(LINE_END_LINUX)

SpecLF == InitLF /\ [][Next]_vars

(***************************************************************************)
(* The template generator, bin/mdlog-generate.rs.  A NaiveDate is its day   *)
(* number in the proleptic Gregorian calendar, 0 for 0001-01-01, a Monday.  *)
(***************************************************************************)
\* the most weeks asked for in one run
MaxNWeeks == 3

\* the years the runs start in: 2019 has 52 ISO weeks, 2020 has 53
Years == {2019, 2020}

\* Weekday::Mon and Weekday::Sun as chrono's num_days_from_monday
Weekday_Mon == 0

Weekday_Sun == 6

\* the day number of January 1 of the year
days_before_year(year) ==
    LET y == year - 1
    IN  365 * y + (y \div 4) - (y \div 100) + (y \div 400)

\* NaiveDate::from_isoywd: ISO week 1 is the week that holds January 4
from_isoywd(year, week, weekday) ==
    LET jan4 == days_before_year(year) + 3
        week1_monday == jan4 - (jan4 % 7)
    IN  week1_monday + 7 * (week - 1) + weekday

\* Datelike::weekday, as the days from Monday
weekday_of(d) == d % 7

\* NaiveDate::succ
succ(d) == d + 1

\* lines 103-115: the year and the week of the last day
end_of_range(year, week, n_weeks) ==
    IF week + n_weeks - 1 > 52
    THEN [endyear   |-> year + ((week + n_weeks) \div 52),
          last_week |-> ((week + n_weeks - 1) % 52) + 1,
          printed   |-> TRUE]
    ELSE [endyear   |-> year,
          last_week |-> week + n_weeks - 1,
          printed   |-> FALSE]

\* lines 63-116: the arguments are read and checked, the first and the last
\* day are computed
GenMain(year, week, n_weeks) ==
    /\ gen_pc = "args"
    /\ input' = [year |-> year, week |-> week, n_weeks |-> n_weeks]
    /\ IF ~(0 < week /\ week <= 52) \/ ~(n_weeks >= 1)
       THEN /\ gen_pc' = "panic"
            /\ UNCHANGED <<day, last_day, stdout>>
       ELSE LET e == end_of_range(year, week, n_weeks)
            IN  /\ gen_pc' = "loop"
                /\ day' = from_isoywd(year, week, Weekday_Mon)
                /\ last_day' = from_isoywd(e.endyear, e.last_week, Weekday_Sun)
                /\ stdout' = IF e.printed
                             THEN <<[tag |-> "End: ", day |-> last_day']>>
                             ELSE <<>>
    /\ UNCHANGED <<parser, log_data, n_lines, pc, pending, tasks, events, units, stderr, result>>

\* lines 118-155: one iteration of the loop, without birthdays and calls
GenDay ==
    /\ gen_pc = "loop"
    /\ day <= last_day
    /\ stdout' = stdout
                 \o (IF weekday_of(day) = Weekday_Mon
                     THEN <<[tag |-> "# Week ", day |-> day]>> ELSE <<>>)
                 \o <<[tag |-> "## ", day |-> day]>>
    /\ day' = succ(day)
    /\ UNCHANGED <<gen_pc, input, last_day>>
    /\ UNCHANGED <<parser, log_data, n_lines, pc, pending, tasks, events, units, stderr, result>>

\* lines 118 and 156: the loop ends
GenDone ==
    /\ gen_pc = "loop"
    /\ day > last_day
    /\ gen_pc' = "done"
    /\ UNCHANGED <<input, day, last_day, stdout>>
    /\ UNCHANGED <<parser, log_data, n_lines, pc, pending, tasks, events, units, stderr, result>>

GenNext ==
    \/ \E year \in Years, week \in 0..53, n_weeks \in 0..MaxNWeeks : GenMain(year, week, n_weeks)
    \/ GenDay
    \/ GenDone

SpecGen == Init /\ [][GenNext]_vars

(***************************************************************************)
(* The log text as the specification describes it, read off log_data        *)
(* without the parser's own lookups.                                        *)
(***************************************************************************)
LE == parser.line_end

Ended == result.kind # "none"

Returned == result.kind = "Ok"

\* the offsets of the day headings: a line ending followed by "## "
DayHeadings == occurrences(log_data, LE \o DAY)

\* the offsets of the start markers of the tasks and of the events
TaskMarkers ==
    occurrences(log_data, LE \o ITEM \o TODO) \cup occurrences(log_data, LE \o ITEM \o DONE)

EventMarkers == occurrences(log_data, LE \o ITEM \o EVT)

CallMarkers ==
    IF pc = "parse_tasks" THEN TaskMarkers
    ELSE IF pc = "parse_events" THEN EventMarkers ELSE {}

\* the four unit terminators, and whether one occurs at offset q
Terminators == {LE \o ITEM, LE \o LE, LE \o DAY, LE \o WEEK}

TerminatorAt(q) == \E t \in Terminators : matches_at(log_data, t, q)

\* the line that starts at offset b: the text up to the next line ending
EndOfLineFrom(b) ==
    SetMin({q \in b..Len(log_data) : q = Len(log_data) \/ matches_at(log_data, LE, q)})

LineAt(b) == str_range(log_data, b, EndOfLineFrom(b))

\* the line of the marker found at offset m (the marker begins with the
\* line ending in front of the line)
MarkerLine(m) == LineAt(m + Len(LE))

\* the marker's line is ended by a line ending
LineTerminated(m) == \E q \in (m + Len(LE))..Len(log_data) : matches_at(log_data, LE, q)

\* a unit terminator occurs in the text that remains from the marker's line on
HasTerminator(m) == \E q \in (m + Len(LE))..Len(log_data) : TerminatorAt(q)

\* the day headings in front of the marker at offset m, and the line of the
\* nearest one
HeadingsBefore(m) == {h \in DayHeadings : h < m}

HeadingLine(h) == LineAt(h + Len(LE))

OwningHeadingLine(m) == HeadingLine(SetMax(HeadingsBefore(m)))

\* the digits of a line read as DDMMYYYY
ReadDDMMYYYY(line) ==
    LET d == SelectSeq(line, is_numeric)
    IN  IF Len(d) # 8 THEN [year |-> -1, month |-> -1, day |-> -1]
        ELSE [year  |-> 1000 * digit_value(d[5]) + 100 * digit_value(d[6])
                        + 10 * digit_value(d[7]) + digit_value(d[8]),
              month |-> 10 * digit_value(d[3]) + digit_value(d[4]),
              day   |-> 10 * digit_value(d[1]) + digit_value(d[2])]

IsCalendarDate(d) ==
    /\ d.month \in 1..12
    /\ d.day >= 1
    /\ d.day <= days_in_month(d.year, d.month)

HasValidHeading(m) ==
    /\ HeadingsBefore(m) # {}
    /\ IsCalendarDate(ReadDDMMYYYY(OwningHeadingLine(m)))

\* str::trim
RECURSIVE TrimEnd(_)
TrimEnd(s) ==
    IF s # <<>> /\ is_whitespace(s[Len(s)]) THEN TrimEnd(str_to(s, Len(s) - 1)) ELSE s

Trim(s) == TrimEnd(trim_start(s))

Contains(s, pat) == occurrences(s, pat) # {}

\* the text after the first occurrence of pat in s
After(s, pat) == str_from(s, SetMin(occurrences(s, pat)) + Len(pat))

(***************************************************************************)
(* Claims.                                                                  *)
(***************************************************************************)

\* C1: every Task returned by parse_tasks and every Event returned by
\* parse_events carries the date of the nearest day heading in front of its
\* marker line, the digits of that heading line read as DDMMYYYY; no later
\* heading and no earlier heading that is not the nearest is used.
C1_DateFromNearestHeading ==
    Returned =>
        \A k \in 1..Len(result.value) :
            /\ HeadingsBefore(units[k].idx) # {}
            /\ result.value[k].date = ReadDDMMYYYY(OwningHeadingLine(units[k].idx))

\* a record is returned whose marker has two day headings with different
\* dates in front of it, and a record whose marker has a heading after it
C1_Witness ==
    /\ Returned
    /\ \E k \in 1..Len(result.value) :
          \E h \in HeadingsBefore(units[k].idx) :
              /\ ReadDDMMYYYY(HeadingLine(h)) # ReadDDMMYYYY(OwningHeadingLine(units[k].idx))
              /\ result.value[k].date = ReadDDMMYYYY(OwningHeadingLine(units[k].idx))

\* C2: the text range scanned for the child lines of a task or event ends at
\* the first unit terminator after the start of the unit's line, so no
\* terminator (a top-level item, an empty line, a day heading, a week heading)
\* lies inside it, no start marker of another unit lies inside it, and the
\* record holds no more child lines than the range has lines.
C2_UnitEndsAtFirstTerminator ==
    \A k \in 1..Len(units) :
        LET u == units[k]
            children == IF pc = "parse_tasks"
                        THEN Len(tasks[k].subtasks) + Len(tasks[k].notes)
                        ELSE Len(events[k].notes)
        IN  /\ u.start <= u.from /\ u.from <= u.to
            /\ TerminatorAt(u.to)
            /\ \A q \in u.start..(u.to - 1) : ~TerminatorAt(q)
            /\ \A m \in TaskMarkers \cup EventMarkers : ~(u.start <= m /\ m < u.to)
            /\ children <= Len(lines(str_range(log_data, u.start, u.to))) - 1

\* the range of a returned record ends at a terminator that is followed by
\* another terminator later in the text, which the range leaves out
C2_Witness ==
    /\ Returned
    /\ \E k \in 1..Len(units) :
          /\ units[k].to > units[k].from
          /\ \E q \in (units[k].to + 1)..Len(log_data) : TerminatorAt(q)

\* C3: a Task's is_done is true exactly when its own marker is DONE and none
\* of its subtasks has is_done = false.
C3_DoneIffMarkerAndSubtasks ==
    pc = "parse_tasks" =>
        \A k \in 1..Len(tasks) :
            tasks[k].is_done <=>
                /\ matches_at(log_data, LE \o ITEM \o DONE, units[k].idx)
                /\ \A i \in 1..Len(tasks[k].subtasks) : tasks[k].subtasks[i].is_done

\* parse_tasks returns a task marked DONE that has a subtask not done, and so
\* is not done itself
C3_Witness ==
    /\ pc = "parse_tasks"
    /\ Returned
    /\ \E k \in 1..Len(result.value) :
          /\ matches_at(log_data, LE \o ITEM \o DONE, units[k].idx)
          /\ \E i \in 1..Len(result.value[k].subtasks) : ~result.value[k].subtasks[i].is_done
          /\ ~result.value[k].is_done

\* the child lines of a unit, each after its indentation and item prefix,
\* the empty ones left out
ChildLines(u) ==
    LET ls == lines(str_range(log_data, u.from, u.to))
    IN  SelectSeq([i \in 1..Len(ls) |-> strip_item(ls[i])], LAMBDA l : l # <<>>)

\* C4: every non-empty child line of a task is classified into exactly one
\* class without parse_tasks failing on it: a subtask not done (TODO and not
\* DONE), a subtask done (DONE and not TODO), a note (neither) or dropped
\* (both).  Stated for the texts in which every task marker has a terminated
\* line with a colon-space, a valid day heading and a unit terminator, so that
\* nothing but a child line can make the call fail.
C4_Original ==
    (/\ pc = "parse_tasks"
     /\ Ended
     /\ \A m \in TaskMarkers :
            /\ LineTerminated(m)
            /\ HasValidHeading(m)
            /\ HasTerminator(m)
            /\ Contains(MarkerLine(m), COLON_SPACE))
    => /\ Returned
       /\ \A k \in 1..Len(tasks) :
              LET kids == ChildLines(units[k])
                  subs == SelectSeq(kids, LAMBDA l : Contains(l, TODO) # Contains(l, DONE))
                  plain == SelectSeq(kids, LAMBDA l : ~Contains(l, TODO) /\ ~Contains(l, DONE))
              IN  /\ Len(tasks[k].subtasks) = Len(subs)
                  /\ \A i \in 1..Len(subs) :
                         tasks[k].subtasks[i].is_done = Contains(subs[i], DONE)
                  /\ tasks[k].notes = plain

\* C5: parse_tasks returns the tasks in the order of their markers in the text.
C5_Original ==
    (pc = "parse_tasks" /\ Returned) =>
        \A j, k \in 1..Len(result.value) : j < k => units[j].idx < units[k].idx

\* C6: when a marker has no unit terminator in the text that remains, the call
\* returns an error value.  Stated for the texts in which every marker's line
\* is terminated and has a valid day heading in front of it.
C6_Original ==
    (/\ Ended
     /\ \A m \in CallMarkers : LineTerminated(m) /\ HasValidHeading(m)
     /\ \E m \in CallMarkers : ~HasTerminator(m))
    => result.kind = "Err"

\* C7: when a marker has no day heading (line ending + "## ") in front of it,
\* the call returns an error value.  Stated for the texts in which every
\* marker's line is terminated.
C7_Original ==
    (/\ Ended
     /\ \A m \in CallMarkers : LineTerminated(m)
     /\ \E m \in CallMarkers : HeadingsBefore(m) = {})
    => result.kind = "Err"

\* C8: when the digits of the day heading that owns a task (parse_tasks) or an
\* event (parse_events) are no calendar date, the call returns an error and no
\* list.
C8_Original ==
    (/\ Ended
     /\ \E m \in CallMarkers :
            /\ HeadingsBefore(m) # {}
            /\ ~IsCalendarDate(ReadDDMMYYYY(OwningHeadingLine(m))))
    => result = Err("InvalidInput")

\* C9: a Task's msg is the text after the first colon-space of its marker
\* line, trimmed: it has no whitespace at either end.
C9_Original ==
    pc = "parse_tasks" =>
        \A k \in 1..Len(tasks) :
            tasks[k].msg = Trim(After(MarkerLine(units[k].idx), COLON_SPACE))

\* C10: an event line that begins "- EVT:" gives an Event without time whose
\* msg is the text after that colon, its leading whitespace removed; any other
\* event line "- EVT HH:MM: <message>" gives time HH:MM:00 and as msg the text
\* after the second colon of the line, trimmed, whatever the message holds.
C10_Original ==
    pc = "parse_events" =>
        \A k \in 1..Len(events) :
            LET l == MarkerLine(units[k].idx)
                hm == split(str_from(l, EVT_TIME_SKIP), ":")
                colons == {q \in occurrences(l, <<":">>) : TRUE}
            IN  IF matches_at(l, ITEM \o EVT \o <<":">>, 0)
                THEN /\ events[k].time = None
                     /\ events[k].msg = trim_start(str_from(l, EVT_PLAIN_SKIP))
                ELSE /\ events[k].time = Some([hour |-> digits_value(hm[1]),
                                               minute |-> digits_value(hm[2]),
                                               second |-> 0])
                     /\ events[k].msg = Trim(After(After(l, <<":">>), <<":">>))

\* the child lines of an event as the specification reads them: the lines of
\* the unit after the event's own line, the empty ones left out, each without
\* its indentation and without the two characters of its item marker
ExpectedNotes(u) ==
    LET ls == lines(str_range(log_data, u.start, u.to))
        kids == SelectSeq(IF ls = <<>> THEN <<>> ELSE Tail(ls), LAMBDA l : l # <<>>)
    IN  [i \in 1..Len(kids) |->
            LET l == trim_start(kids[i])
            IN  IF Len(l) <= 2 THEN <<>> ELSE SubSeq(l, 3, Len(l))]

\* C11: the notes of every event are the non-empty child lines of its unit, in
\* source order, each without its indentation and its two-character item
\* marker, and building them does not fail on any non-empty child line, a line
\* shorter than two characters after its indentation included.  Stated for the
\* texts in which every event marker has a terminated line, a valid day
\* heading and a unit terminator, so that nothing but a child line can make
\* the call fail.
C11_Original ==
    (/\ pc = "parse_events"
     /\ Ended
     /\ \A m \in EventMarkers :
            /\ LineTerminated(m)
            /\ HasValidHeading(m)
            /\ HasTerminator(m))
    => /\ Returned
       /\ \A k \in 1..Len(events) : events[k].notes = ExpectedNotes(units[k])

\* the text with every line feed replaced by carriage return + line feed
RECURSIVE ToCRLF(_)
ToCRLF(s) ==
    IF s = <<>> THEN <<>>
    ELSE (IF Head(s) = "\n" THEN LINE_END_WINDOWS ELSE <<Head(s)>>) \o ToCRLF(Tail(s))

\* the outcome of the entry point that was called, for a parser built with
\* the CRLF line ending run on the CRLF form of the text
OutcomeUnderCRLF ==
    IF pc = "parse_tasks"
    THEN parse_tasks(from_line_end(LINE_END_WINDOWS), ToCRLF(log_data))
    ELSE parse_events(from_line_end(LINE_END_WINDOWS), ToCRLF(log_data))

\* C12: for a text with line-feed endings, the call of a parser built with the
\* LF line ending ends as the call of a parser built with the CRLF line ending
\* does on the text with every line feed replaced by CR LF: both fail, in the
\* same way (the same error or the same panic), or both return the same
\* ordered Tasks (Events).
C12_SameOutcomeUnderCRLF ==
    (LE = LINE_END_LINUX /\ Ended) => OutcomeUnderCRLF = result

\* an LF call returned a record that has child lines, so that line endings
\* lie inside its unit, and the CRLF call returns the same records
C12_Witness ==
    /\ LE = LINE_END_LINUX
    /\ Returned
    /\ \E k \in 1..Len(result.value) : result.value[k].notes # <<>>
    /\ OutcomeUnderCRLF.kind = "Ok"
    /\ Len(ToCRLF(log_data)) > Len(log_data)

\* the week headings and the day headings printed
WeekHeadings == SelectSeq(stdout, LAMBDA l : l.tag = "# Week ")

DayHeadingsPrinted == SelectSeq(stdout, LAMBDA l : l.tag = "## ")

\* C13: the generator prints exactly n_weeks weeks: for every start week in
\* [1,52] and every n_weeks >= 1 the run ends with n_weeks week headings and
\* 7 * n_weeks day headings, the last of them for the Sunday n_weeks - 1 weeks
\* after the start week, also when week + n_weeks - 1 exceeds 52.
C13_Original ==
    gen_pc = "done" =>
        /\ Len(WeekHeadings) = input.n_weeks
        /\ Len(DayHeadingsPrinted) = 7 * input.n_weeks
        /\ DayHeadingsPrinted[Len(DayHeadingsPrinted)].day
               = from_isoywd(input.year, input.week, Weekday_Mon) + 7 * input.n_weeks - 1

\* every place in the text where an item marked TODO or DONE begins, at the
\* start of a line or not
MarkedItems == occurrences(log_data, ITEM \o TODO) \cup occurrences(log_data, ITEM \o DONE)

\* C14: when parse_tasks succeeds it returns one Task for each occurrence in
\* the text of line ending + "- TODO" or line ending + "- DONE", none skipped
\* and none taken twice, each Task read from the line of its occurrence; an
\* indented TODO/DONE line, or a marker on the first line of the text, which
\* has no line ending in front of it, gives no Task.
C14_OneTaskPerMarker ==
    (pc = "parse_tasks" /\ Returned) =>
        /\ Len(result.value) = Cardinality(TaskMarkers)
        /\ {units[k].idx : k \in 1..Len(units)} = TaskMarkers
        /\ \A j, k \in 1..Len(units) : j # k => units[j].idx # units[k].idx
        /\ \A k \in 1..Len(result.value) :
               result.value[k].msg = After(MarkerLine(units[k].idx), COLON_SPACE)

\* parse_tasks returned a task from a text that holds an indented item marked
\* TODO or DONE, which is in the unit of the task and is no task itself
C14_Witness ==
    /\ pc = "parse_tasks"
    /\ Returned
    /\ \E k \in 1..Len(result.value) :
           \E q \in MarkedItems : units[k].from < q /\ q < units[k].to
    /\ Cardinality(MarkedItems) > Len(result.value)

====
